---- MODULE Spec2Model ----
(***************************************************************************)
(* UniScann barcode detector (src/src/1.-BarcodeDetector): the capture     *)
(* loop BarcodeDetector.run, the per-frame pipeline process_frame, the     *)
(* scale search ImageProcessor.detect_with_multiple_scales, the validators *)
(* and the ledger / cooldown gate of CodeStorage.                          *)
(*                                                                         *)
(* Units.  Time is counted in ticks, TicksPerSecond ticks to a second.     *)
(* Scale factors are kept in tenths (1.0 -> 10, 1.2 -> 12, ...).           *)
(* Strings are sequences of code points, byte strings sequences of bytes.  *)
(* An optional value (Python None / a value) is <<>> or <<v>>.             *)
(***************************************************************************)
EXTENDS Integers, Sequences, FiniteSets, TLC

-----------------------------------------------------------------------------
(* Bounds of the model *)

TicksPerSecond == 2   \* clock resolution of the model
MaxRecords == 3       \* ledger length up to which symbols are decoded

-----------------------------------------------------------------------------
(* config.py *)

cooldown_seconds == 2
scales == <<10, 12, 8, 14>>
processing_modes ==
  <<"Original", "Escala de grises", "Contraste mejorado", "Binarizacion", "Morfologico">>
supported_symbols == {"EAN13", "UPCA", "CODE128"}

CooldownTicks == cooldown_seconds * TicksPerSecond
\* the clock is followed until the cooldown has passed once since the start
MaxTime == CooldownTicks + 1

None == <<>>
Some(v) == <<v>>

-----------------------------------------------------------------------------
(* detector/validator.py *)

\* str.isdigit is true of the characters with a digit value: the ASCII digits,
\* the digits of other scripts (here ARABIC-INDIC U+0660..U+0669) and digit
\* forms such as the superscripts U+00B2, U+00B3, U+00B9
IsDigitChar(c) == c \in (48..57) \cup (1632..1641) \cup {178, 179, 185}
isdigit(code) == Len(code) > 0 /\ \A i \in 1..Len(code) : IsDigitChar(code[i])
\* int(ch) accepts the decimal digits of any script and raises ValueError on
\* every other character, the superscript digits included
IsDecimalChar(c) == c \in (48..57) \cup (1632..1641)
\* int(code[i]), 0-based index
DigitAt(code, i) ==
  LET c == code[i + 1] IN IF c \in 48..57 THEN c - 48 ELSE c - 1632

\* what a call does: it returns a boolean or raises ValueError
Returns(v) == [raised |-> FALSE, value |-> v]
RaisesValueError == [raised |-> TRUE, value |-> FALSE]

RECURSIVE SumRange(_, _, _, _)
\* sum(int(code[i]) for i in range(from, to, step))
SumRange(code, from, to, step) ==
  IF from >= to THEN 0
  ELSE DigitAt(code, from) + SumRange(code, from + step, to, step)

\* mutant: the weight 3 is put on the other half of the positions
is_valid_ean13_swapped(code) ==
  IF Len(code) # 13 THEN Returns(FALSE)
  ELSE IF ~isdigit(code) THEN Returns(FALSE)
  ELSE IF \E i \in 0..12 : ~IsDecimalChar(code[i + 1]) THEN RaisesValueError
  ELSE LET odd_sum == SumRange(code, 0, 12, 2)
           even_sum == SumRange(code, 1, 12, 2)
           checksum == (10 - ((odd_sum * 3 + even_sum) % 10)) % 10
       IN Returns(checksum = DigitAt(code, 12))

\* int() is applied to code[0..11] in the two sums and to code[12]
is_valid_ean13(code) ==
  IF Len(code) # 13 THEN Returns(FALSE)
  ELSE IF ~isdigit(code) THEN Returns(FALSE)
  ELSE IF \E i \in 0..12 : ~IsDecimalChar(code[i + 1]) THEN RaisesValueError
  ELSE LET odd_sum == SumRange(code, 0, 12, 2)
           even_sum == SumRange(code, 1, 12, 2)
           checksum == (10 - ((odd_sum + even_sum * 3) % 10)) % 10
       IN Returns(checksum = DigitAt(code, 12))

\* mutant: the EAN-13 weights on a 12-character code
is_valid_upca_swapped(code) ==
  IF Len(code) # 12 THEN Returns(FALSE)
  ELSE IF ~isdigit(code) THEN Returns(FALSE)
  ELSE IF \E i \in 0..11 : ~IsDecimalChar(code[i + 1]) THEN RaisesValueError
  ELSE LET odd_sum == SumRange(code, 0, 11, 2)
           even_sum == SumRange(code, 1, 11, 2)
           checksum == (10 - ((odd_sum + even_sum * 3) % 10)) % 10
       IN Returns(checksum = DigitAt(code, 11))

\* int() is applied to code[0..10] in the two sums and to code[11]
is_valid_upca(code) ==
  IF Len(code) # 12 THEN Returns(FALSE)
  ELSE IF ~isdigit(code) THEN Returns(FALSE)
  ELSE IF \E i \in 0..11 : ~IsDecimalChar(code[i + 1]) THEN RaisesValueError
  ELSE LET odd_sum == SumRange(code, 0, 11, 2)
           even_sum == SumRange(code, 1, 11, 2)
           checksum == (10 - ((odd_sum * 3 + even_sum) % 10)) % 10
       IN Returns(checksum = DigitAt(code, 11))

\* mutant: UPC-A codes are taken as valid without a check
validate_code_upca_free(code, code_type) ==
  IF code_type = "EAN13" THEN is_valid_ean13(code)
  ELSE Returns(TRUE)

\* validators.get(code_type): the two checks, lambda x: True for CODE128,
\* and True when there is no entry
validate_code(code, code_type) ==
  IF code_type = "EAN13" THEN is_valid_ean13(code)
  ELSE IF code_type = "UPCA" THEN is_valid_upca(code)
  ELSE IF code_type = "CODE128" THEN Returns(TRUE)
  ELSE Returns(TRUE)

\* '84', '76', '77', '80', '81', '82', '83'
pharma_prefixes ==
  {<<56, 52>>, <<55, 54>>, <<55, 55>>, <<56, 48>>, <<56, 49>>, <<56, 50>>, <<56, 51>>}

startswith(code, prefix) ==
  Len(code) >= Len(prefix) /\ SubSeq(code, 1, Len(prefix)) = prefix

\* mutant: the prefixes are looked at whatever the length of the code
is_pharmaceutical_code_anylen(code, code_type) ==
  IF code_type \notin {"EAN13", "UPCA", "CODE128"} THEN FALSE
  ELSE IF code_type = "EAN13"
       THEN \E prefix \in pharma_prefixes : startswith(code, prefix)
  ELSE TRUE

is_pharmaceutical_code(code, code_type) ==
  IF code_type \notin {"EAN13", "UPCA", "CODE128"} THEN FALSE
  ELSE IF code_type = "EAN13" /\ Len(code) = 13
       THEN \E prefix \in pharma_prefixes : startswith(code, prefix)
  ELSE TRUE

-----------------------------------------------------------------------------
(* The decoder's symbols (pyzbar.Decoded: data bytes, type, rect) *)

\* b"4006381333931": a valid EAN-13 without pharmaceutical prefix
SymA == [data |-> <<52, 48, 48, 54, 51, 56, 49, 51, 51, 51, 57, 51, 49>>,
         type |-> "EAN13", rect |-> <<120, 120, 60, 30>>]
\* b"AB"
SymB == [data |-> <<65, 66>>, type |-> "CODE128", rect |-> <<10, 21, 35, 7>>]
\* b"8412345678900": an EAN-13 with a pharmaceutical prefix and a wrong check
\* digit (the right one is 5)
SymE == [data |-> <<56, 52, 49, 50, 51, 52, 53, 54, 55, 56, 57, 48, 48>>,
         type |-> "EAN13", rect |-> <<200, 40, 90, 45>>]

Symbols == {SymA, SymB}

\* the non-empty results pyzbar.decode can return for one image

\* bytes.decode('utf-8'): ASCII bytes map to their code points, the two-byte
\* form 0xC2 0x80..0xBF to U+0080..U+00BF; anything else here is malformed.
RECURSIVE utf8_decode(_)
utf8_decode(bytes) ==
  IF bytes = <<>> THEN [ok |-> TRUE, text |-> <<>>]
  ELSE IF Head(bytes) < 128
       THEN LET rest == utf8_decode(Tail(bytes))
            IN [ok |-> rest.ok, text |-> <<Head(bytes)>> \o rest.text]
  ELSE IF Head(bytes) = 194 /\ Len(bytes) >= 2 /\ bytes[2] \in 128..191
       THEN LET rest == utf8_decode(Tail(Tail(bytes)))
            IN [ok |-> rest.ok, text |-> <<bytes[2]>> \o rest.text]
  ELSE [ok |-> FALSE, text |-> <<>>]

-----------------------------------------------------------------------------
(* storage/codeStorage.py: pure parts *)

\* datetime.strftime('%Y-%m-%d %H:%M:%S'): the instant cut to whole seconds
strftime(t) == t \div TicksPerSecond

\* mutant: a rejected offer restarts the window
should_process_detection_refresh(lb, lt, barcode_data, current_time) ==
  IF lb # Some(barcode_data) \/ lt = None
     \/ current_time - lt[1] > CooldownTicks
  THEN [result |-> TRUE, last_barcode |-> Some(barcode_data),
        last_detection_time |-> Some(current_time)]
  ELSE [result |-> FALSE, last_barcode |-> lb,
        last_detection_time |-> Some(current_time)]

\* mutant: a rejected offer puts the gate back to idle
should_process_detection_forget(lb, lt, barcode_data, current_time) ==
  IF lb # Some(barcode_data) \/ lt = None
     \/ current_time - lt[1] > CooldownTicks
  THEN [result |-> TRUE, last_barcode |-> Some(barcode_data),
        last_detection_time |-> Some(current_time)]
  ELSE [result |-> FALSE, last_barcode |-> None, last_detection_time |-> None]

\* mutant: the window ends one instant early (>= for >)
should_process_detection_ge(lb, lt, barcode_data, current_time) ==
  IF lb # Some(barcode_data) \/ lt = None
     \/ current_time - lt[1] >= CooldownTicks
  THEN [result |-> TRUE, last_barcode |-> Some(barcode_data),
        last_detection_time |-> Some(current_time)]
  ELSE [result |-> FALSE, last_barcode |-> lb, last_detection_time |-> lt]

\* the body of CodeStorage.should_process_detection on the gate state
\* (lb, lt), the offered payload and the value of datetime.now()
should_process_detection(lb, lt, barcode_data, current_time) ==
  IF lb # Some(barcode_data) \/ lt = None
     \/ current_time - lt[1] > CooldownTicks
  THEN [result |-> TRUE, last_barcode |-> Some(barcode_data),
        last_detection_time |-> Some(current_time)]
  ELSE [result |-> FALSE, last_barcode |-> lb, last_detection_time |-> lt]

_is_pharmaceutical_type(code_type) == code_type \in {"EAN13", "UPCA", "CODE128"}

\* mutant: the new record is put in front of the ledger
add_detected_code_front(codes, code_data, code_type, is_valid, extra_info, t) ==
  LET detection_info ==
        [codigo |-> code_data, tipo |-> code_type, timestamp |-> strftime(t),
         valido |-> is_valid,
         es_farmaceutico |-> IF extra_info # None THEN extra_info[1]
                             ELSE _is_pharmaceutical_type(code_type)]
  IN <<detection_info>> \o codes

\* mutant: extra_info is not merged, the type-only default stays
add_detected_code_default(codes, code_data, code_type, is_valid, extra_info, t) ==
  LET detection_info ==
        [codigo |-> code_data, tipo |-> code_type, timestamp |-> strftime(t),
         valido |-> is_valid,
         es_farmaceutico |-> _is_pharmaceutical_type(code_type)]
  IN Append(codes, detection_info)

\* mutant: a payload the ledger already holds is not recorded again
add_detected_code_unique(codes, code_data, code_type, is_valid, extra_info, t) ==
  LET detection_info ==
        [codigo |-> code_data, tipo |-> code_type, timestamp |-> strftime(t),
         valido |-> is_valid,
         es_farmaceutico |-> IF extra_info # None THEN extra_info[1]
                             ELSE _is_pharmaceutical_type(code_type)]
  IN IF \E i \in 1..Len(codes) : codes[i].codigo = code_data THEN codes
     ELSE Append(codes, detection_info)

\* extra_info is None or Some(es_farmaceutico), the only key the pipeline passes
add_detected_code(codes, code_data, code_type, is_valid, extra_info, t) ==
  LET detection_info ==
        [codigo |-> code_data, tipo |-> code_type, timestamp |-> strftime(t),
         valido |-> is_valid,
         es_farmaceutico |-> IF extra_info # None THEN extra_info[1]
                             ELSE _is_pharmaceutical_type(code_type)]
  IN Append(codes, detection_info)

\* mutant: the ledger is emptied and the gate left as it was
clear_history_keep_gate(codes, lb, lt) ==
  [detected_codes |-> <<>>, last_barcode |-> lb, last_detection_time |-> lt]

\* clear_history: the ledger and the gate state it leaves
clear_history(codes, lb, lt) ==
  [detected_codes |-> <<>>, last_barcode |-> None, last_detection_time |-> None]

\* dict.get(k, default)
Get(code, k, default) == IF k \in DOMAIN code THEN code[k] ELSE default

CountIf(codes, P(_)) == Cardinality({i \in 1..Len(codes) : P(codes[i])})

\* mutant: records without a type are left out of the distribution
RECURSIVE types_count_known(_)
types_count_known(codes) ==
  IF codes = <<>> THEN <<>>
  ELSE LET tc == types_count_known(SubSeq(codes, 1, Len(codes) - 1))
           code == codes[Len(codes)]
       IN IF "tipo" \notin DOMAIN code THEN tc
          ELSE [ty \in DOMAIN tc \cup {code.tipo} |->
                  IF ty = code.tipo
                  THEN (IF code.tipo \in DOMAIN tc THEN tc[code.tipo] ELSE 0) + 1
                  ELSE tc[ty]]

\* the loop that fills types_count: one more for the type of each record
RECURSIVE types_count(_)
types_count(codes) ==
  IF codes = <<>> THEN <<>>
  ELSE LET tc == types_count(SubSeq(codes, 1, Len(codes) - 1))
           code_type == Get(codes[Len(codes)], "tipo", "Unknown")
       IN [ty \in DOMAIN tc \cup {code_type} |->
             IF ty = code_type
             THEN (IF code_type \in DOMAIN tc THEN tc[code_type] ELSE 0) + 1
             ELSE tc[ty]]

\* mutant: every record is counted as valid
get_statistics_allvalid(codes) ==
  LET total == Len(codes)
      pharmaceutical == CountIf(codes, LAMBDA c : Get(c, "es_farmaceutico", FALSE))
  IN [total |-> total, valid |-> total, invalid |-> 0,
      pharmaceutical |-> pharmaceutical,
      non_pharmaceutical |-> total - pharmaceutical,
      types_distribution |-> types_count(codes),
      detection_rate |-> IF total > 0 THEN <<total, total>> ELSE <<0, 1>>]

get_statistics(codes) ==
  LET total == Len(codes)
      valid == CountIf(codes, LAMBDA c : Get(c, "valido", FALSE))
      pharmaceutical == CountIf(codes, LAMBDA c : Get(c, "es_farmaceutico", FALSE))
  IN [total |-> total, valid |-> valid, invalid |-> total - valid,
      pharmaceutical |-> pharmaceutical,
      non_pharmaceutical |-> total - pharmaceutical,
      types_distribution |-> types_count(codes),
      \* valid / total as a fraction, 0 when the ledger is empty
      detection_rate |-> IF total > 0 THEN <<valid, total>> ELSE <<0, 1>>]

\* a timestamp string is kept as the second it names; NotADate stands for a
\* string that datetime.strptime rejects with ValueError
NotADate == 0 - 1

\* an entry of the ledger that is a JSON object; [json |-> v] stands for an
\* imported entry that is the number v
IsObject(code) == "json" \notin DOMAIN code

\* get_recent_codes(minutes) called at time t: code['timestamp'] raises
\* KeyError on an object without the key and TypeError on a number, neither
\* of which is caught; a timestamp that does not parse raises ValueError,
\* which is
RECURSIVE get_recent_codes(_, _, _)
get_recent_codes(codes, minutes, t) ==
  IF codes = <<>> THEN [raised |-> FALSE, value |-> <<>>]
  ELSE LET rest == get_recent_codes(SubSeq(codes, 1, Len(codes) - 1), minutes, t)
           code == codes[Len(codes)]
           cutoff_time == t - minutes * 60 * TicksPerSecond
       IN IF rest.raised THEN rest
          ELSE IF ~IsObject(code) \/ "timestamp" \notin DOMAIN code
          THEN [raised |-> TRUE, value |-> <<>>]
          ELSE IF code.timestamp = NotADate THEN rest
          ELSE IF code.timestamp * TicksPerSecond >= cutoff_time
          THEN [raised |-> FALSE, value |-> Append(rest.value, code)]
          ELSE rest

\* import_from_json on the content of the file: the ledger it leaves and
\* what it returns (True, or None when there is no 'detected_codes' key)
import_from_json(codes, data) ==
  IF "detected_codes" \in DOMAIN data
  THEN [detected_codes |-> codes \o data.detected_codes, result |-> Some(TRUE)]
  ELSE [detected_codes |-> codes, result |-> None]

-----------------------------------------------------------------------------
(* detector/imageProcessor.py and utils/display.py: pure parts *)

\* cv2.cvtColor(frame, COLOR_BGR2GRAY) accepts 3-channel input only
cvtColor_ok(f) == f.channels = 3

\* array names the pixel buffer: processed_frames[0] is the frame that was
\* passed in (no copy), every other representation is a new array
Rep(tag, f) == [tag |-> tag, channels |-> IF tag = "original" THEN f.channels ELSE 1,
                width |-> f.width, height |-> f.height,
                array |-> IF tag = "original" THEN "frame" ELSE tag]

preprocess_frame(f) ==
  IF ~cvtColor_ok(f) THEN [ok |-> FALSE, frames |-> <<>>]
  ELSE [ok |-> TRUE,
        frames |-> <<Rep("original", f), Rep("gray", f), Rep("clahe", f),
                     Rep("binary", f), Rep("morph", f)>>]

\* grayscale reduction when the image has 3 channels, then cv2.bilateralFilter
apply_bilateral_filter(img) == [img EXCEPT !.channels = 1]

\* int(x * scale) and int(x / scale) with the scale in tenths
int_mul(x, scale) == (x * scale) \div 10
int_div(x, scale) == (x * 10) \div scale

\* mutant: the resized dimensions are not looked at
detect_scale_step_noskip(filtered, scale, out) ==
  IF out.kind = "raise"
  THEN [ctl |-> "continue", barcodes |-> <<>>, scale |-> scale, caught |-> TRUE]
  ELSE IF out.barcodes # <<>>
  THEN [ctl |-> "return", barcodes |-> out.barcodes, scale |-> scale, caught |-> FALSE]
  ELSE [ctl |-> "continue", barcodes |-> <<>>, scale |-> scale, caught |-> FALSE]

\* mutant: no try/except around resize and decode
detect_scale_step_propagate(filtered, scale, out) ==
  IF scale # 10 /\ ~(int_mul(filtered.width, scale) > 0
                     /\ int_mul(filtered.height, scale) > 0)
  THEN [ctl |-> "continue", barcodes |-> <<>>, scale |-> scale, caught |-> FALSE]
  ELSE IF out.kind = "raise"
  THEN [ctl |-> "raise", barcodes |-> <<>>, scale |-> scale, caught |-> FALSE]
  ELSE IF out.barcodes # <<>>
  THEN [ctl |-> "return", barcodes |-> out.barcodes, scale |-> scale, caught |-> FALSE]
  ELSE [ctl |-> "continue", barcodes |-> <<>>, scale |-> scale, caught |-> FALSE]

\* one iteration of the loop over the scales in detect_with_multiple_scales;
\* out is what cv2.resize and pyzbar.decode do on this image: "symbols" with
\* the (possibly empty) symbols decoded, or "raise"
detect_scale_step(filtered, scale, out) ==
  IF scale # 10 /\ ~(int_mul(filtered.width, scale) > 0
                     /\ int_mul(filtered.height, scale) > 0)
  THEN [ctl |-> "continue", barcodes |-> <<>>, scale |-> scale, caught |-> FALSE]
  ELSE IF out.kind = "raise"
  THEN [ctl |-> "continue", barcodes |-> <<>>, scale |-> scale, caught |-> TRUE]
  ELSE IF out.barcodes # <<>>
  THEN [ctl |-> "return", barcodes |-> out.barcodes, scale |-> scale, caught |-> FALSE]
  ELSE [ctl |-> "continue", barcodes |-> <<>>, scale |-> scale, caught |-> FALSE]

\* mutant: the loop goes on after a hit and returns the last scale that hit
RECURSIVE detect_from_last(_, _, _, _, _, _, _)
detect_from_last(f, filtered, r, k, tried, swallowed, best) ==
  IF k > Len(scales)
  THEN [ctl |-> "return", barcodes |-> best.barcodes, scale |-> best.scale,
        tried |-> tried, swallowed |-> swallowed]
  ELSE LET scale == scales[k]
           step == detect_scale_step(filtered, scale, f.decode[<<r, k>>])
           t == Append(tried, scale)
           sw == IF step.caught THEN swallowed \cup {scale} ELSE swallowed
       IN detect_from_last(f, filtered, r, k + 1, t, sw,
            IF step.ctl = "return"
            THEN [barcodes |-> step.barcodes, scale |-> step.scale] ELSE best)

detect_from_noreturn(f, filtered, r, k, tried, swallowed) ==
  detect_from_last(f, filtered, r, k, tried, swallowed,
                   [barcodes |-> <<>>, scale |-> 10])

\* the loop of detect_with_multiple_scales from the k-th scale on; tried is
\* the sequence of scales whose iteration was entered, swallowed the scales
\* at which an exception was caught
RECURSIVE detect_from(_, _, _, _, _, _)
detect_from(f, filtered, r, k, tried, swallowed) ==
  IF k > Len(scales)
  THEN [ctl |-> "return", barcodes |-> <<>>, scale |-> 10,
        tried |-> tried, swallowed |-> swallowed]
  ELSE LET scale == scales[k]
           step == detect_scale_step(filtered, scale, f.decode[<<r, k>>])
           t == Append(tried, scale)
           sw == IF step.caught THEN swallowed \cup {scale} ELSE swallowed
       IN CASE step.ctl = "return" ->
                 [ctl |-> "return", barcodes |-> step.barcodes,
                  scale |-> step.scale, tried |-> t, swallowed |-> sw]
            [] step.ctl = "continue" -> detect_from(f, filtered, r, k + 1, t, sw)
            [] OTHER ->
                 [ctl |-> "raise", barcodes |-> <<>>, scale |-> scale,
                  tried |-> t, swallowed |-> sw]

\* detect_with_multiple_scales on the r-th representation of frame f
detect_with_multiple_scales(f, img, r) ==
  detect_from(f, apply_bilateral_filter(img), r, 1, <<>>, {})

\* mutant: no break, every representation is searched and the last hit kept
RECURSIVE search_from_last(_, _, _, _, _)
search_from_last(f, processed_frames, r, searches, best) ==
  IF r > Len(processed_frames)
  THEN [ok |-> TRUE, barcodes |-> best.barcodes, scale_factor |-> best.scale,
        searches |-> searches]
  ELSE LET d == detect_with_multiple_scales(f, processed_frames[r], r)
       IN search_from_last(f, processed_frames, r + 1, Append(searches, d),
            IF d.barcodes # <<>>
            THEN [barcodes |-> d.barcodes, scale |-> d.scale] ELSE best)

search_from_nobreak(f, processed_frames, r, searches) ==
  search_from_last(f, processed_frames, r, searches,
                   [barcodes |-> <<>>, scale |-> 10])

\* the loop over processed_frames in process_frame from the r-th
\* representation on; searches collects what each call returned
RECURSIVE search_from(_, _, _, _)
search_from(f, processed_frames, r, searches) ==
  IF r > Len(processed_frames)
  THEN [ok |-> TRUE, barcodes |-> <<>>, scale_factor |-> 10, searches |-> searches]
  ELSE LET d == detect_with_multiple_scales(f, processed_frames[r], r)
           ss == Append(searches, d)
       IN IF d.ctl = "raise"
          THEN [ok |-> FALSE, barcodes |-> <<>>, scale_factor |-> 10, searches |-> ss]
          ELSE IF d.barcodes # <<>>
          THEN [ok |-> TRUE, barcodes |-> d.barcodes, scale_factor |-> d.scale,
                searches |-> ss]
          ELSE search_from(f, processed_frames, r + 1, ss)

\* mutant: the box is scaled up instead of back
remap_rect_mul(rect, scale_factor) ==
  <<int_mul(rect[1], scale_factor), int_mul(rect[2], scale_factor),
    int_mul(rect[3], scale_factor), int_mul(rect[4], scale_factor)>>

\* the coordinate adjustment at the head of draw_barcode_info
remap_rect(rect, scale_factor) ==
  <<int_div(rect[1], scale_factor), int_div(rect[2], scale_factor),
    int_div(rect[3], scale_factor), int_div(rect[4], scale_factor)>>

-----------------------------------------------------------------------------
(* Frames: geometry, and what each (representation, scale) image decodes to *)

Positions == (1..5) \X (1..Len(scales))

Nothing == [kind |-> "symbols", barcodes |-> <<>>]
Found(bs) == [kind |-> "symbols", barcodes |-> bs]
Raises == [kind |-> "raise", barcodes |-> <<>>]

\* a frame whose images at the positions wins decode to bs, whose images at
\* the positions fails make resize or decode raise, and that shows nothing else
MakeFrame(channels, width, height, wins, fails, bs) ==
  [channels |-> channels, width |-> width, height |-> height,
   decode |-> [p \in Positions |->
                 IF p \in fails THEN Raises
                 ELSE IF p \in wins THEN Found(bs) ELSE Nothing]]

FrameSymbols(f) == UNION {{f.decode[p].barcodes} : p \in Positions} \ {<<>>}

\* frames of the pipeline specification: camera-size colour frames that show
\* nothing or decode at native scale in the first representation, and a
\* single-channel frame
GateSeqs == {<<SymA>>, <<SymB>>, <<SymA, SymB>>}
GateFrames ==
  {MakeFrame(3, 640, 480, {}, {}, <<>>), MakeFrame(1, 640, 480, {}, {}, <<>>)}
  \cup {MakeFrame(3, 640, 480, {<<1, 1>>}, {}, bs) : bs \in GateSeqs}

\* frames of the ledger specification: camera-size colour frames that show
\* nothing, one symbol, or a valid EAN-13, an invalid EAN-13 and a CODE128
LedgerSeqs == {<<SymA>>, <<SymE>>, <<SymB>>, <<SymA, SymE, SymB>>}
LedgerFrames ==
  {MakeFrame(3, 640, 480, {}, {}, <<>>)}
  \cup {MakeFrame(3, 640, 480, {<<1, 1>>}, {}, bs) : bs \in LedgerSeqs}

\* frames of the mode specification: a frame that shows nothing, one that
\* decodes in the first representation and one that decodes only in the
\* third
ModeFrames ==
  {MakeFrame(3, 640, 480, {}, {}, <<>>)}
  \cup {MakeFrame(3, 640, 480, {p}, {}, <<SymA>>) : p \in {<<1, 1>>, <<3, 1>>}}

\* frames of the run-loop specification: a frame that shows nothing, one
\* symbol, two symbols, and a single-channel frame
RunFrames ==
  {MakeFrame(3, 640, 480, {}, {}, <<>>), MakeFrame(1, 640, 480, {}, {}, <<>>)}
  \cup {MakeFrame(3, 640, 480, {<<1, 1>>}, {}, bs) : bs \in {<<SymA>>, <<SymA, SymB>>}}

\* frames of the search specification, camera size or one pixel wide: no
\* image, one image, or every image from some position of the search order
\* on decodes to SymA; no image, one image or every image fails
Order(p) == (p[1] - 1) * Len(scales) + p[2]
WinSets ==
  {{}} \cup {{p} : p \in Positions}
  \cup {{q \in Positions : Order(q) >= Order(p)} : p \in Positions}
FailSets == {{}, Positions} \cup {{p} : p \in Positions}
SearchFrames ==
  {MakeFrame(3, g[1], g[2], wins, fails, <<SymA>>) :
     g \in {<<640, 480>>, <<1, 120>>}, wins \in WinSets, fails \in FailSets}

-----------------------------------------------------------------------------
(* State *)

VARIABLES
  now,                  \* datetime.now()
  \* CodeStorage
  detected_codes, last_barcode, last_detection_time,
  \* BarcodeDetector
  is_running, processing_mode, camera,
  \* how run() left its loop ("" while it is in it) and the number of calls
  \* of cleanup()
  ended_by, cleanups,
  \* position in run() / process_frame() and the exception leaving run()
  pc, exc,
  \* locals of run() and process_frame(); searches is the sequence of results
  \* of the calls of detect_with_multiple_scales made for the frame
  frame, searches, barcodes, scale_factor, idx,
  barcode_value, barcode_type, drawn, key,
  \* history of the gate: acceptances since the last clear (payload, time,
  \* and whether an offer was rejected since the acceptance before), the time
  \* of the last offer rejected since the last acceptance, the payload that
  \* was cooling down when the last clear happened
  accepted, rejected_since, cooling_at_clear,
  \* a call of one of the functions of BarcodeValidator: its arguments, the
  \* function called ("none" before the call) and what the call did
  v_code, v_type, v_call, v_result,
  \* a direct call of a method of CodeStorage ("none" before the call) and
  \* what the call did
  q_call, q_result

storage_vars == <<detected_codes, last_barcode, last_detection_time>>
detector_vars == <<is_running, processing_mode, camera, ended_by, cleanups>>
search_vars == <<searches, barcodes, scale_factor>>
symbol_vars == <<idx, barcode_value, barcode_type, drawn>>
gate_history == <<accepted, rejected_since, cooling_at_clear>>
validator_vars == <<v_code, v_type, v_call, v_result>>
query_vars == <<q_call, q_result>>
vars == <<now, storage_vars, detector_vars, pc, exc, frame, search_vars,
          symbol_vars, key, gate_history, validator_vars, query_vars>>

NoFrame == MakeFrame(0, 0, 0, {}, {}, <<>>)

\* CodeStorage.__init__, BarcodeDetector.__init__, and run() up to the loop
Init ==
  /\ now = 0
  /\ detected_codes = <<>> /\ last_barcode = None /\ last_detection_time = None
  /\ is_running = TRUE /\ processing_mode = 0 /\ camera = "open"
  /\ ended_by = "" /\ cleanups = 0
  /\ pc = "read" /\ exc = "none"
  /\ frame = NoFrame /\ key = "none"
  /\ searches = <<>> /\ barcodes = <<>> /\ scale_factor = 10
  /\ idx = 0 /\ barcode_value = <<>> /\ barcode_type = "" /\ drawn = <<>>
  /\ accepted = <<>> /\ rejected_since = None /\ cooling_at_clear = None
  /\ v_code = <<>> /\ v_type = "" /\ v_call = "none" /\ v_result = Returns(FALSE)
  /\ q_call = <<"none">> /\ q_result = Returns(FALSE)

-----------------------------------------------------------------------------
(* Actions *)

\* the wall clock advances; the clock is read by should_process_detection
\* and add_detected_code, and time that passes anywhere else in the loop is
\* time that passes before the next of these readings (or before the key
\* is handled)
Tick ==
  /\ UNCHANGED <<validator_vars, query_vars>>
  /\ pc \in {"gate", "record", "key"}
  /\ now < MaxTime
  /\ now' = now + 1
  /\ UNCHANGED <<storage_vars, detector_vars, pc, exc, frame, search_vars,
                 symbol_vars, key, gate_history>>

\* BarcodeDetector.cleanup, reached through the finally clause of run();
\* e is the exception that leaves run(), "none" when it returns
Cleanup(e, why) ==
  /\ camera' = "released"
  /\ is_running' = FALSE
  /\ pc' = "exited"
  /\ exc' = e
  /\ ended_by' = why
  /\ cleanups' = cleanups + 1

\* process_frame returns: draw_interface_info, then display_frame in run()
ReturnFrame == pc' = "waitkey"

\* the loop over barcodes in process_frame moves past symbol idx
NextSymbol ==
  IF idx < Len(barcodes)
  THEN pc' = "draw" /\ idx' = idx + 1
  ELSE ReturnFrame /\ idx' = idx

\* mutant: the search starts at the representation of the current mode
ReadFrame_mode(f) ==
  /\ UNCHANGED <<validator_vars, query_vars>>
  /\ pc = "read" /\ is_running /\ camera = "open"
  /\ \A bs \in FrameSymbols(f) : Len(detected_codes) + Len(bs) <= MaxRecords
  /\ frame' = f
  /\ LET p == preprocess_frame(f)
         s == search_from(f, p.frames, processing_mode + 1, <<>>)
     IN IF ~p.ok
        THEN /\ Cleanup("cv2.error", "exception")
             /\ UNCHANGED <<search_vars, idx, processing_mode>>
        ELSE IF ~s.ok
        THEN /\ Cleanup("Exception", "exception")
             /\ searches' = s.searches
             /\ UNCHANGED <<barcodes, scale_factor, idx, processing_mode>>
        ELSE /\ searches' = s.searches
             /\ barcodes' = s.barcodes
             /\ scale_factor' = s.scale_factor
             /\ IF s.barcodes # <<>>
                THEN pc' = "draw" /\ idx' = 1
                ELSE ReturnFrame /\ idx' = idx
             /\ UNCHANGED <<exc, detector_vars>>
  /\ UNCHANGED <<now, storage_vars, barcode_value, barcode_type, drawn, key,
                 gate_history>>

\* cap.read() delivers frame f; process_frame preprocesses it and searches
\* its representations, up to the loop over the symbols found
ReadFrame(f) ==
  /\ UNCHANGED <<validator_vars, query_vars>>
  /\ pc = "read" /\ is_running /\ camera = "open"
  /\ \A bs \in FrameSymbols(f) : Len(detected_codes) + Len(bs) <= MaxRecords
  /\ frame' = f
  /\ LET p == preprocess_frame(f)
         s == search_from(f, p.frames, 1, <<>>)
     IN IF ~p.ok
        THEN /\ Cleanup("cv2.error", "exception")
             /\ UNCHANGED <<search_vars, idx, processing_mode>>
        ELSE IF ~s.ok
        THEN /\ Cleanup("Exception", "exception")
             /\ searches' = s.searches
             /\ UNCHANGED <<barcodes, scale_factor, idx, processing_mode>>
        ELSE /\ searches' = s.searches
             /\ barcodes' = s.barcodes
             /\ scale_factor' = s.scale_factor
             /\ IF s.barcodes # <<>>
                THEN pc' = "draw" /\ idx' = 1
                ELSE ReturnFrame /\ idx' = idx
             /\ UNCHANGED <<exc, detector_vars>>
  /\ UNCHANGED <<now, storage_vars, barcode_value, barcode_type, drawn, key,
                 gate_history>>

\* cap.read() reports failure: camera_error message, break, cleanup
ReadFail ==
  /\ UNCHANGED <<validator_vars, query_vars>>
  /\ pc = "read" /\ is_running /\ camera = "open"
  /\ Cleanup("none", "read failure")
  /\ UNCHANGED <<now, storage_vars, processing_mode, frame, search_vars,
                 symbol_vars, key, gate_history>>

\* mutant: the gate is looked at first and a symbol it would reject is
\* neither drawn nor offered
DrawSymbol_gated ==
  /\ UNCHANGED <<validator_vars, query_vars>>
  /\ pc = "draw"
  /\ LET barcode == barcodes[idx]
         d == utf8_decode(barcode.data)
         g == should_process_detection(last_barcode, last_detection_time,
                                       d.text, now)
     IN IF g.result
        THEN /\ drawn' = Append(drawn, remap_rect(barcode.rect, scale_factor))
             /\ barcode_value' = d.text /\ barcode_type' = barcode.type
             /\ pc' = "gate" /\ idx' = idx
        ELSE /\ NextSymbol
             /\ UNCHANGED <<drawn, barcode_value, barcode_type>>
  /\ UNCHANGED <<now, storage_vars, detector_vars, exc, frame, search_vars,
                 key, gate_history>>

\* draw_barcode_info for barcodes[idx]: remap the box, draw the rectangle,
\* decode the payload, draw the labels
DrawSymbol ==
  /\ UNCHANGED <<validator_vars, query_vars>>
  /\ pc = "draw"
  /\ LET barcode == barcodes[idx]
         d == utf8_decode(barcode.data)
     IN /\ drawn' = Append(drawn, remap_rect(barcode.rect, scale_factor))
        /\ IF d.ok
           THEN /\ barcode_value' = d.text /\ barcode_type' = barcode.type
                /\ pc' = "gate"
                /\ UNCHANGED <<exc, detector_vars>>
           ELSE /\ Cleanup("UnicodeDecodeError", "exception")
                /\ UNCHANGED <<barcode_value, barcode_type, processing_mode>>
  /\ UNCHANGED <<now, storage_vars, frame, search_vars, idx, key, gate_history>>

\* storage.should_process_detection(barcode_value)
GateSymbol ==
  /\ UNCHANGED <<validator_vars, query_vars>>
  /\ pc = "gate"
  /\ LET g == should_process_detection(last_barcode, last_detection_time,
                                       barcode_value, now)
     IN /\ last_barcode' = g.last_barcode
        /\ last_detection_time' = g.last_detection_time
        /\ IF g.result
           THEN /\ pc' = "record" /\ idx' = idx
                /\ accepted' = Append(accepted,
                     [payload |-> barcode_value, time |-> now,
                      after_reject |-> rejected_since # None])
                /\ rejected_since' = None
           ELSE /\ NextSymbol
                /\ accepted' = accepted
                /\ rejected_since' = Some(now)
  /\ UNCHANGED <<now, detected_codes, detector_vars, exc, frame, search_vars,
                 barcode_value, barcode_type, drawn, key, cooling_at_clear>>

\* process_detected_code(barcode_value, barcode_type)
RecordSymbol ==
  /\ UNCHANGED <<validator_vars, query_vars>>
  /\ pc = "record"
  /\ LET is_valid == validate_code(barcode_value, barcode_type)
         is_pharmaceutical == is_pharmaceutical_code(barcode_value, barcode_type)
     IN IF is_valid.raised
        THEN /\ Cleanup("ValueError", "exception")
             /\ UNCHANGED <<detected_codes, idx, processing_mode>>
        ELSE /\ detected_codes' =
                  add_detected_code(detected_codes, barcode_value, barcode_type,
                                    is_valid.value, Some(is_pharmaceutical), now)
             /\ NextSymbol
             /\ UNCHANGED <<detector_vars, exc>>
  /\ UNCHANGED <<now, last_barcode, last_detection_time, frame, search_vars,
                 barcode_value, barcode_type, drawn, key, gate_history>>

\* cv2.waitKey(1) & 0xFF after the frame is shown ("none" is 255); the
\* locals of process_frame are gone
WaitKey(k) ==
  /\ UNCHANGED <<validator_vars, query_vars>>
  /\ pc = "waitkey"
  /\ key' = k
  /\ pc' = IF k = "none" THEN "read" ELSE "key"
  /\ frame' = NoFrame
  /\ searches' = <<>> /\ barcodes' = <<>> /\ scale_factor' = 10
  /\ idx' = 0 /\ barcode_value' = <<>> /\ barcode_type' = "" /\ drawn' = <<>>
  /\ UNCHANGED <<now, storage_vars, detector_vars, exc, gate_history>>

\* the payload the gate holds is inside its cooldown window at time t
Cooling(lb, lt, t) == lb # None /\ lt # None /\ t - lt[1] <= CooldownTicks

\* handle_keyboard_input(key) and the test of its result in run()
HandleKey ==
  /\ UNCHANGED <<validator_vars, query_vars>>
  /\ pc = "key"
  /\ CASE key = "q" ->
            /\ Cleanup("none", "quit")
            /\ UNCHANGED <<storage_vars, processing_mode, gate_history>>
       [] key = "c" ->
            \* storage.clear_history()
            /\ LET c == clear_history(detected_codes, last_barcode,
                                      last_detection_time)
               IN /\ detected_codes' = c.detected_codes
                  /\ last_barcode' = c.last_barcode
                  /\ last_detection_time' = c.last_detection_time
            /\ accepted' = <<>> /\ rejected_since' = None
            /\ cooling_at_clear' =
                 IF Cooling(last_barcode, last_detection_time, now)
                 THEN last_barcode ELSE None
            /\ pc' = "read"
            /\ UNCHANGED <<detector_vars, exc>>
       [] key = "s" ->
            /\ processing_mode' = (processing_mode + 1) % Len(processing_modes)
            /\ pc' = "read"
            /\ UNCHANGED <<storage_vars, is_running, camera, ended_by, cleanups, exc,
                           gate_history>>
       [] OTHER ->
            \* 'e' exports, 'r' prints the statistics, other keys do nothing
            /\ pc' = "read"
            /\ UNCHANGED <<storage_vars, detector_vars, exc, gate_history>>
  /\ UNCHANGED <<now, frame, search_vars, symbol_vars, key>>

\* the capture device goes away: cap.isOpened() is false from now on
CameraCloses ==
  /\ UNCHANGED <<validator_vars, query_vars>>
  /\ pc = "read" /\ camera = "open"
  /\ camera' = "closed"
  /\ UNCHANGED <<now, storage_vars, is_running, processing_mode, ended_by,
                 cleanups, pc, exc, frame, search_vars, symbol_vars, key,
                 gate_history>>

\* the loop condition of run() is false: the loop ends, then finally
LoopEnds ==
  /\ UNCHANGED <<validator_vars, query_vars>>
  /\ pc = "read" /\ ~(is_running /\ camera = "open")
  /\ Cleanup("none", "closed")
  /\ UNCHANGED <<now, storage_vars, processing_mode, frame, search_vars,
                 symbol_vars, key, gate_history>>

\* mutant: the interrupt ends run() without the finally clause
Interrupt_nocleanup ==
  /\ UNCHANGED <<validator_vars, query_vars>>
  /\ pc # "exited"
  /\ pc' = "exited" /\ ended_by' = "interrupt"
  /\ UNCHANGED <<now, storage_vars, is_running, processing_mode, camera,
                 cleanups, exc, frame, search_vars, symbol_vars, key,
                 gate_history>>

\* KeyboardInterrupt is raised in the main thread wherever it is in the try
\* block of run(); except KeyboardInterrupt prints the message, then finally
Interrupt ==
  /\ UNCHANGED <<validator_vars, query_vars>>
  /\ pc # "exited"
  /\ Cleanup("none", "interrupt")
  /\ UNCHANGED <<now, storage_vars, processing_mode, frame, search_vars,
                 symbol_vars, key, gate_history>>

-----------------------------------------------------------------------------
(* Direct calls of CodeStorage *)

\* records found in a file written by export_to_json or by hand: a complete
\* one from two minutes before the session, one without 'timestamp', one
\* whose timestamp is not a date, one with neither 'tipo' nor 'valido', and
\* an entry that is a number
ImportedRecords ==
  {[codigo |-> <<65, 66>>, tipo |-> "CODE128", timestamp |-> 0 - 120,
    valido |-> TRUE, es_farmaceutico |-> TRUE],
   [codigo |-> SymE.data, tipo |-> "EAN13", valido |-> FALSE,
    es_farmaceutico |-> TRUE],
   [codigo |-> <<65, 66>>, tipo |-> "CODE128", timestamp |-> NotADate,
    valido |-> TRUE, es_farmaceutico |-> TRUE],
   [codigo |-> <<65, 66>>, timestamp |-> 0],
   [json |-> 7]}
\* the JSON documents read: with one or two records, with none, and without
\* the 'detected_codes' key
ImportFiles ==
  {[detected_codes |-> <<r>>] : r \in ImportedRecords}
  \cup {[detected_codes |-> <<r1, r2>>] : r1, r2 \in ImportedRecords}
  \cup {[detected_codes |-> <<>>], [statistics |-> <<>>]}
QueryMinutes == {0, 1}

storage_call_frame == <<is_running, processing_mode, camera, ended_by, cleanups,
                        pc, exc, frame, search_vars, symbol_vars, key,
                        gate_history, validator_vars>>

\* time passes between two calls
Wait ==
  /\ now < MaxTime
  /\ now' = now + 1
  /\ UNCHANGED <<storage_vars, storage_call_frame, query_vars>>

\* storage.add_detected_code(code, type, is_valid, extra_info)
Call_add_detected_code ==
  /\ Len(detected_codes) < MaxRecords
  /\ detected_codes' =
       add_detected_code(detected_codes, utf8_decode(SymA.data).text, "EAN13",
                         TRUE, Some(FALSE), now)
  /\ q_call' = <<"add_detected_code">>
  /\ q_result' = Returns(TRUE)
  /\ UNCHANGED <<now, last_barcode, last_detection_time, storage_call_frame>>

\* storage.import_from_json(filename), data being what json.load returns
Call_import_from_json(data) ==
  /\ "detected_codes" \in DOMAIN data =>
       Len(detected_codes) + Len(data.detected_codes) <= MaxRecords
  /\ LET r == import_from_json(detected_codes, data)
     IN /\ detected_codes' = r.detected_codes
        /\ q_result' = [raised |-> FALSE, value |-> r.result]
  /\ q_call' = <<"import_from_json">>
  /\ UNCHANGED <<now, last_barcode, last_detection_time, storage_call_frame>>

\* storage.clear_history()
Call_clear_history ==
  /\ LET c == clear_history(detected_codes, last_barcode, last_detection_time)
     IN /\ detected_codes' = c.detected_codes
        /\ last_barcode' = c.last_barcode
        /\ last_detection_time' = c.last_detection_time
  /\ q_call' = <<"clear_history">>
  /\ q_result' = Returns(TRUE)
  /\ UNCHANGED <<now, storage_call_frame>>

\* storage.get_recent_codes(minutes)
Call_get_recent_codes(minutes) ==
  /\ q_call' = <<"get_recent_codes", minutes>>
  /\ q_result' = get_recent_codes(detected_codes, minutes, now)
  /\ UNCHANGED <<now, storage_vars, storage_call_frame>>

-----------------------------------------------------------------------------
(* Calls of the validators *)

\* the text "4006381333931"
Ean13Text == utf8_decode(SymA.data).text
Replace(cd, i, c) == [cd EXCEPT ![i] = c]

\* characters put into a code: ASCII digits, 'A', SUPERSCRIPT TWO and
\* ARABIC-INDIC DIGIT THREE
InnerChars == {48, 55, 57, 65, 178, 1635}
LastChars == (48..57) \cup {65, 178, 1635}

\* 13-character codes: "4006381333931" with one of its first 12 characters
\* and its last character replaced, or with another two-digit head
Codes13 ==
  {Replace(Replace(Ean13Text, i, c), 13, d) :
     i \in 1..12, c \in InnerChars, d \in LastChars}
  \cup {<<a, b>> \o SubSeq(Ean13Text, 3, 13) : a \in {55, 56}, b \in 48..57}
\* 12-character codes: the 13-character codes without their first character
Codes12 == {Tail(cd) : cd \in Codes13}
\* codes of other lengths, with and without a pharmaceutical head
CodesOther ==
  {SubSeq(Ean13Text, 1, n) : n \in 0..11}
  \cup {Ean13Text \o <<49>>}
  \cup {h \o SubSeq(Ean13Text, 3, n) : h \in {<<56, 52>>, <<56, 53>>}, n \in {2, 11, 12}}
  \cup {h \o SubSeq(Ean13Text, 3, 13) \o <<49>> : h \in {<<56, 52>>, <<56, 53>>}}
ValidatorCodes == Codes13 \cup Codes12 \cup CodesOther
ValidatorTypes == {"EAN13", "UPCA", "CODE128", "QRCODE", "I25"}

\* the state before a call of a validator on one of the inputs
InitValidator ==
  /\ now = 0
  /\ detected_codes = <<>> /\ last_barcode = None /\ last_detection_time = None
  /\ is_running = TRUE /\ processing_mode = 0 /\ camera = "open"
  /\ ended_by = "" /\ cleanups = 0
  /\ pc = "read" /\ exc = "none"
  /\ frame = NoFrame /\ key = "none"
  /\ searches = <<>> /\ barcodes = <<>> /\ scale_factor = 10
  /\ idx = 0 /\ barcode_value = <<>> /\ barcode_type = "" /\ drawn = <<>>
  /\ accepted = <<>> /\ rejected_since = None /\ cooling_at_clear = None
  /\ v_code \in ValidatorCodes /\ v_type \in ValidatorTypes
  /\ v_call = "none" /\ v_result = Returns(FALSE)
  /\ q_call = <<"none">> /\ q_result = Returns(FALSE)

pipeline_vars == <<now, storage_vars, detector_vars, pc, exc, frame, search_vars,
                   symbol_vars, key, gate_history>>

Call_is_valid_ean13 ==
  /\ v_call' = "is_valid_ean13"
  /\ v_result' = is_valid_ean13(v_code)
  /\ UNCHANGED <<v_code, v_type, pipeline_vars, query_vars>>

Call_is_valid_upca ==
  /\ v_call' = "is_valid_upca"
  /\ v_result' = is_valid_upca(v_code)
  /\ UNCHANGED <<v_code, v_type, pipeline_vars, query_vars>>

Call_validate_code ==
  /\ v_call' = "validate_code"
  /\ v_result' = validate_code(v_code, v_type)
  /\ UNCHANGED <<v_code, v_type, pipeline_vars, query_vars>>

Call_is_pharmaceutical_code ==
  /\ v_call' = "is_pharmaceutical_code"
  /\ v_result' = Returns(is_pharmaceutical_code(v_code, v_type))
  /\ UNCHANGED <<v_code, v_type, pipeline_vars, query_vars>>

-----------------------------------------------------------------------------
(* Specifications *)

\* the pipeline with the gate and the ledger under a running clock
Next ==
  \/ Tick
  \/ \E f \in GateFrames : ReadFrame(f)
  \/ ReadFail
  \/ DrawSymbol
  \/ GateSymbol
  \/ RecordSymbol
  \/ \E k \in {"none", "q", "c"} : WaitKey(k)
  \/ HandleKey

Spec == Init /\ [][Next]_vars

\* the representation and scale search over frames of every content
NextSearch ==
  \/ \E f \in SearchFrames : ReadFrame(f)
  \/ DrawSymbol
  \/ GateSymbol
  \/ RecordSymbol
  \/ WaitKey("none")

SpecSearch == Init /\ [][NextSearch]_vars

\* the pipeline filling and clearing the ledger with records of every kind,
\* over frames that follow each other within one tick of the clock
NextLedger ==
  \/ \E f \in LedgerFrames : ReadFrame(f)
  \/ DrawSymbol
  \/ GateSymbol
  \/ RecordSymbol
  \/ \E k \in {"none", "c"} : WaitKey(k)
  \/ HandleKey

SpecLedger == Init /\ [][NextLedger]_vars

\* the ways in and out of the loop of run(), over frames that follow each
\* other within one tick of the clock
NextRun ==
  \/ \E f \in RunFrames : ReadFrame(f)
  \/ ReadFail
  \/ CameraCloses
  \/ LoopEnds
  \/ Interrupt
  \/ DrawSymbol
  \/ GateSymbol
  \/ RecordSymbol
  \/ \E k \in {"none", "q", "c"} : WaitKey(k)
  \/ HandleKey

SpecRun == Init /\ [][NextRun]_vars

\* the ledger filled by records and imports, cleared and queried over time
NextStorage ==
  \/ Wait
  \/ Call_add_detected_code
  \/ \E data \in ImportFiles : Call_import_from_json(data)
  \/ Call_clear_history
  \/ \E minutes \in QueryMinutes : Call_get_recent_codes(minutes)

SpecStorage == Init /\ [][NextStorage]_vars

\* the pipeline under the keys that switch the mode, clear and report
NextMode ==
  \/ Tick
  \/ \E f \in ModeFrames : ReadFrame(f)
  \/ DrawSymbol
  \/ GateSymbol
  \/ RecordSymbol
  \/ \E k \in {"none", "s", "c", "r"} : WaitKey(k)
  \/ HandleKey

SpecMode == Init /\ [][NextMode]_vars

\* the validators called on codes of every shape
NextValidator ==
  \/ Call_is_valid_ean13
  \/ Call_is_valid_upca
  \/ Call_validate_code
  \/ Call_is_pharmaceutical_code

SpecValidator == InitValidator /\ [][NextValidator]_vars

-----------------------------------------------------------------------------
(* Steps of the gate, seen from a pair of states *)

\* should_process_detection is called in this step, and what it returned
GateStep == pc = "gate" /\ pc' # "gate"
GateAccepts == GateStep /\ pc' = "record"
GateRejects == GateStep /\ pc' # "record"
\* process_detected_code is called in this step
RecordStep == pc = "record" /\ pc' # "record"
\* clear_history is called in this step
ClearStep == pc = "key" /\ key = "c" /\ pc' # "key"

LastAccepted == accepted[Len(accepted)]

-----------------------------------------------------------------------------
(* Claims *)

\* C1: once payload P was accepted at t0 and nothing else was accepted since,
\* an offer of P at time t is rejected when t - t0 <= cooldown and accepted
\* when t - t0 > cooldown, whether or not offers of P were rejected in
\* between; an offer of a payload other than the last accepted one is
\* accepted whatever the elapsed time.
C1_CooldownGate ==
  [][GateStep /\ accepted # <<>> =>
       IF LastAccepted.payload = barcode_value
       THEN (pc' = "record") <=> (now - LastAccepted.time > CooldownTicks)
       ELSE pc' = "record"]_vars

\* C1 witness: P accepted, offered again and rejected inside the window, then
\* accepted once the window has passed
C1_Witness ==
  \E i \in 1..(Len(accepted) - 1) :
    /\ accepted[i + 1].payload = accepted[i].payload
    /\ accepted[i + 1].after_reject
    /\ accepted[i + 1].time - accepted[i].time > CooldownTicks
    /\ Len(detected_codes) >= i + 1

\* C2: between clears, any two ledger records with the same payload were
\* accepted more than the cooldown apart.
C2_NoDuplicateInWindow ==
  \A i, j \in 1..Len(detected_codes) :
    (i < j /\ detected_codes[i].codigo = detected_codes[j].codigo)
      => accepted[j].time - accepted[i].time > CooldownTicks

\* C3: a payload becomes a record only if, when it is offered, it differs
\* from the stored last_barcode, or the gate is idle, or the time since the
\* stored last_detection_time is strictly greater than the cooldown.
C3_CooldownInvariant ==
  [][/\ GateAccepts =>
          \/ last_barcode # Some(barcode_value)
          \/ last_detection_time = None
          \/ now - last_detection_time[1] > CooldownTicks
     /\ Len(detected_codes') > Len(detected_codes) =>
          /\ RecordStep
          /\ Len(detected_codes') = Len(detected_codes) + 1
          /\ detected_codes'[Len(detected_codes')].codigo = barcode_value
          /\ last_barcode = Some(barcode_value)]_vars

\* C3 witness: two records in a row with different payloads, the second
\* accepted inside the cooldown window of the first
C3_Witness ==
  \E i \in 1..(Len(detected_codes) - 1) :
    /\ detected_codes[i].codigo # detected_codes[i + 1].codigo
    /\ accepted[i + 1].time - accepted[i].time <= CooldownTicks

\* C4 as stated: a rejected offer of the same payload inside the window sets
\* last_detection_time to the time of the rejected offer.
C4_RejectRefreshes ==
  [][(GateStep /\ Cooling(last_barcode, last_detection_time, now)
        /\ last_barcode = Some(barcode_value))
       => /\ pc' # "record"
          /\ last_barcode' = last_barcode
          /\ last_detection_time' = Some(now)]_vars

\* C4 amended: a rejected offer leaves last_barcode and last_detection_time
\* as they were (the window keeps running from the last acceptance); only an
\* accepted offer sets them, to the offered payload and the current time.
C4_RejectKeepsState ==
  [][/\ (GateStep /\ Cooling(last_barcode, last_detection_time, now)
           /\ last_barcode = Some(barcode_value))
          => /\ pc' # "record"
             /\ UNCHANGED <<last_barcode, last_detection_time>>
     /\ GateAccepts =>
          /\ last_barcode' = Some(barcode_value)
          /\ last_detection_time' = Some(now)]_vars

\* C4 witness: an offer was rejected later than the acceptance it repeats,
\* and the gate still holds the time of the acceptance
C4_Witness ==
  /\ rejected_since # None /\ accepted # <<>>
  /\ rejected_since[1] > LastAccepted.time
  /\ last_detection_time = Some(LastAccepted.time)

ZeroStatistics ==
  [total |-> 0, valid |-> 0, invalid |-> 0, pharmaceutical |-> 0,
   non_pharmaceutical |-> 0, types_distribution |-> <<>>,
   detection_rate |-> <<0, 1>>]

\* C5: clear empties the ledger and resets the gate: right after it the
\* statistics are all zero, and the gate stays idle until the next offer,
\* which is accepted and recorded whatever payload it is and whenever it
\* comes.
C5_ClearResets ==
  /\ [](accepted = <<>> => (last_barcode = None /\ last_detection_time = None))
  /\ [][/\ ClearStep =>
             /\ get_statistics(detected_codes') = ZeroStatistics
             /\ detected_codes' = <<>>
             /\ last_barcode' = None /\ last_detection_time' = None
        /\ (GateStep /\ accepted = <<>>) => pc' = "record"
        /\ (RecordStep /\ Len(accepted) = 1) =>
             /\ Len(detected_codes') = 1
             /\ detected_codes'[1].codigo = accepted[1].payload]_vars

\* C5 witness: the payload that was cooling down when the history was cleared
\* is the first one accepted and recorded after the clear
C5_Witness ==
  /\ cooling_at_clear # None
  /\ accepted # <<>> /\ Some(accepted[1].payload) = cooling_at_clear
  /\ detected_codes # <<>> /\ Some(detected_codes[1].codigo) = cooling_at_clear

-----------------------------------------------------------------------------
(* What a frame holds, read off its content *)

\* the scale iteration at position p is left by "continue" before any resize
Skipped(f, p) ==
  /\ scales[p[2]] # 10
  /\ ~(int_mul(f.width, scales[p[2]]) > 0 /\ int_mul(f.height, scales[p[2]]) > 0)
\* the image at position p makes resize or decode raise
Fails(f, p) == ~Skipped(f, p) /\ f.decode[p].kind = "raise"
\* the image at position p decodes to one or more symbols
Yields(f, p) ==
  ~Skipped(f, p) /\ f.decode[p].kind = "symbols" /\ f.decode[p].barcodes # <<>>
Hits(f) == {p \in Positions : Yields(f, p)}
FirstHit(f) == CHOOSE p \in Hits(f) : \A q \in Hits(f) : Order(p) <= Order(q)

\* the (representation, scale index) pairs whose iteration was entered
Attempted ==
  {<<i, k>> : i \in 1..Len(searches), k \in 1..Len(scales)}
  \ {p \in Positions : p[1] > Len(searches) \/ p[2] > Len(searches[p[1]].tried)}

InFrame == pc \in {"draw", "gate", "record", "waitkey"}

\* C6: the representations are searched in preprocessor order and the search
\* stops at the first one whose scale search finds symbols: every earlier
\* representation was tried at all 4 scales and found nothing, the winning
\* one was tried up to the scale that hit, and nothing after that position
\* was attempted; a frame that shows nothing was tried at all 20 positions.
C6_FirstRepresentationWins ==
  InFrame =>
    IF Hits(frame) = {}
    THEN barcodes = <<>> /\ Attempted = Positions
    ELSE LET h == FirstHit(frame)
         IN /\ barcodes = frame.decode[h].barcodes
            /\ scale_factor = scales[h[2]]
            /\ Len(searches) = h[1]
            /\ Attempted = {p \in Positions : Order(p) <= Order(h)}
            /\ \A i \in 1..(h[1] - 1) :
                 searches[i].barcodes = <<>> /\ Len(searches[i].tried) = 4

\* C6 witness: only from representation 3 at scale 1.2 on does the frame
\* decode; representations 1-2 were tried in full, representation 3 at 1.0
\* and 1.2, representations 4-5 (which would decode) never
C6_Witness ==
  /\ InFrame /\ barcodes # <<>>
  /\ Len(searches) = 3 /\ searches[3].tried = <<10, 12>> /\ scale_factor = 12
  /\ searches[1].tried = <<10, 12, 8, 14>> /\ searches[2].tried = <<10, 12, 8, 14>>
  /\ Yields(frame, <<4, 1>>) /\ Yields(frame, <<5, 1>>)

\* C7: every scale search tries the scales in the order 1.0, 1.2, 0.8, 1.4
\* and returns at the first scale that decodes to symbols, with exactly that
\* scale and those symbols and no later scale tried; when no scale decodes
\* it has tried all four and returns the empty sequence with scale 1.0.
C7_ScaleSearch ==
  \A i \in 1..Len(searches) :
    LET d == searches[i]
        n == Len(d.tried)
    IN /\ n \in 1..4
       /\ d.tried = SubSeq(<<10, 12, 8, 14>>, 1, n)
       /\ \A k \in 1..(n - 1) : ~Yields(frame, <<i, k>>)
       /\ IF Yields(frame, <<i, n>>)
          THEN d.barcodes = frame.decode[<<i, n>>].barcodes /\ d.scale = d.tried[n]
          ELSE n = 4 /\ d.barcodes = <<>> /\ d.scale = 10

\* C7 witness: a search that hit at 0.8 although 1.4 would decode as well,
\* after a search that found nothing and returned scale 1.0
C7_Witness ==
  \E i \in 2..Len(searches) :
    /\ searches[i].barcodes # <<>> /\ searches[i].scale = 8
    /\ Yields(frame, <<i, 4>>)
    /\ searches[i - 1].barcodes = <<>> /\ searches[i - 1].scale = 10

\* C8: a failure of resize or decode at one scale is swallowed: it counts as
\* no symbols at that scale, the search goes on with the next scale (after
\* the last scale, with the next representation), nothing is raised out of
\* the scale search, and a later scale that decodes still gives the result.
C8_FailureSwallowed ==
  /\ exc = "none" /\ pc # "exited"
  /\ \A p \in Attempted :
       Fails(frame, p) =>
         LET d == searches[p[1]]
         IN /\ scales[p[2]] \in d.swallowed
            /\ IF p[2] < Len(scales)
               THEN <<p[1], p[2] + 1>> \in Attempted
               ELSE d.barcodes = <<>> /\ d.scale = 10
                    /\ (InFrame /\ p[1] < 5 => <<p[1] + 1, 1>> \in Attempted)
  /\ InFrame /\ Hits(frame) # {} => barcodes = frame.decode[FirstHit(frame)].barcodes

\* C8 witness: a scale failed and a later scale of the same search decoded
C8_Witness ==
  /\ InFrame /\ barcodes # <<>>
  /\ searches[Len(searches)].swallowed # {}
  /\ \E k \in 1..Len(scales) :
       Fails(frame, <<Len(searches), k>>) /\ scales[k] # scale_factor

\* C9: processing a frame always completes: no failure of an image stage
\* leaves process_frame, so run() never ends with an exception.
C9_FrameAlwaysCompletes == exc = "none"

RemappedBoxes ==
  [i \in 1..Len(barcodes) |-> remap_rect(barcodes[i].rect, scale_factor)]

\* C10: every symbol of the winning set is remapped and drawn, in decoder
\* order, whether the gate accepts it or not; the gate is consulted only
\* after the symbol is drawn; a record is appended if and only if the gate
\* accepted the symbol.
C10_DrawnWhateverTheGate ==
  /\ [](pc \in {"gate", "record"} =>
          drawn = SubSeq(RemappedBoxes, 1, idx))
  /\ [](pc = "draw" => drawn = SubSeq(RemappedBoxes, 1, idx - 1))
  /\ [](pc = "waitkey" => drawn = RemappedBoxes)
  /\ [](Len(accepted) = Len(detected_codes) + (IF pc = "record" THEN 1 ELSE 0))
  /\ [][/\ GateStep => (drawn' = drawn /\ detected_codes' = detected_codes)
        /\ GateRejects => pc' \in {"draw", "waitkey"}
        /\ RecordStep => /\ Len(detected_codes') = Len(detected_codes) + 1
                         /\ pc' \in {"draw", "waitkey"}
        /\ Len(detected_codes') > Len(detected_codes) => RecordStep]_vars

\* C10 witness: a frame of two symbols is done, both are drawn, the first
\* was rejected by the gate and the second accepted and recorded
C10_Witness ==
  /\ pc = "waitkey" /\ Len(barcodes) = 2 /\ Len(drawn) = 2
  /\ Len(accepted) = 2 /\ Len(detected_codes) = 2
  /\ accepted[1].payload = utf8_decode(barcodes[1].data).text
  /\ accepted[2].payload = utf8_decode(barcodes[2].data).text
  /\ accepted[2].after_reject /\ ~accepted[1].after_reject
  /\ rejected_since = None

-----------------------------------------------------------------------------
(* The validators against the check-digit formulas *)

\* the value of the decimal digit at 0-based position i, in either script
Val(cd, i) == CHOOSE v \in 0..9 : cd[i + 1] \in {48 + v, 1632 + v}
AllDecimal(cd) ==
  \A i \in 1..Len(cd) : \E v \in 0..9 : cd[i] \in {48 + v, 1632 + v}

Ean13CheckDigit(cd) ==
  LET a == Val(cd, 0) + Val(cd, 2) + Val(cd, 4) + Val(cd, 6) + Val(cd, 8) + Val(cd, 10)
      b == Val(cd, 1) + Val(cd, 3) + Val(cd, 5) + Val(cd, 7) + Val(cd, 9) + Val(cd, 11)
  IN (10 - ((a + 3 * b) % 10)) % 10

UpcaCheckDigit(cd) ==
  LET a == Val(cd, 0) + Val(cd, 2) + Val(cd, 4) + Val(cd, 6) + Val(cd, 8) + Val(cd, 10)
      b == Val(cd, 1) + Val(cd, 3) + Val(cd, 5) + Val(cd, 7) + Val(cd, 9)
  IN (10 - ((3 * a + b) % 10)) % 10

\* C11: is_valid_ean13(code) is true iff len(code) = 13, all characters are
\* decimal digits and (10 - ((d0+d2+..+d10) + 3*(d1+d3+..+d11)) mod 10) mod 10
\* is the digit at position 12; so of the ten final digits of a 13-digit code
\* exactly one is valid, and changing the last digit of a valid code gives an
\* invalid one.
C11_Ean13CheckDigit ==
  v_call = "is_valid_ean13" =>
    /\ (v_result = Returns(TRUE)) <=>
          /\ Len(v_code) = 13
          /\ AllDecimal(v_code)
          /\ Ean13CheckDigit(v_code) = Val(v_code, 12)
    /\ (Len(v_code) = 13 /\ AllDecimal(v_code)) =>
          Cardinality({d \in 48..57 :
             is_valid_ean13(Replace(v_code, 13, d)) = Returns(TRUE)}) = 1
    /\ v_result = Returns(TRUE) =>
          \A d \in 48..57 :
            d - 48 # Val(v_code, 12) =>
              is_valid_ean13(Replace(v_code, 13, d)) = Returns(FALSE)

\* C11 witness: a valid 13-digit code other than 4006381333931, with another
\* check digit
C11_Witness ==
  /\ v_call = "is_valid_ean13" /\ v_result = Returns(TRUE)
  /\ v_code[13] # Ean13Text[13]

\* C12: is_valid_upca(code) is true iff len(code) = 12, all characters are
\* digits and (10 - (3*(d0+d2+..+d10) + (d1+d3+..+d9)) mod 10) mod 10 is the
\* digit at position 11.
C12_UpcaCheckDigit ==
  v_call = "is_valid_upca" =>
    (v_result = Returns(TRUE)) <=>
      /\ Len(v_code) = 12
      /\ AllDecimal(v_code)
      /\ UpcaCheckDigit(v_code) = Val(v_code, 11)

\* C12 witness: a valid 12-digit code, and one whose digits at an even and
\* an odd position differ from the base code's
C12_Witness ==
  /\ v_call = "is_valid_upca" /\ v_result = Returns(TRUE)
  /\ Len(v_code) = 12 /\ v_code[2] # Ean13Text[3]

\* C13: the validators are total: whatever the payload, the call returns a
\* boolean and does not raise.
C13_ValidatorsTotal == v_call # "none" => ~v_result.raised

\* C14: validate_code(code, type) is is_valid_ean13(code) for EAN13,
\* is_valid_upca(code) for UPCA, and true for CODE128 and every other type.
C14_ValidateDispatch ==
  v_call = "validate_code" =>
    v_result = CASE v_type = "EAN13" -> is_valid_ean13(v_code)
                 [] v_type = "UPCA" -> is_valid_upca(v_code)
                 [] OTHER -> Returns(TRUE)

\* C14 witness: a 12-digit code with a wrong check digit is invalid as UPCA
C14_Witness ==
  /\ v_call = "validate_code" /\ v_type = "UPCA"
  /\ Len(v_code) = 12 /\ AllDecimal(v_code)
  /\ v_result = Returns(FALSE)

PharmaHeads == {<<56, 52>>, <<55, 54>>, <<55, 55>>, <<56, 48>>, <<56, 49>>,
                <<56, 50>>, <<56, 51>>}
HasPharmaHead(cd) == Len(cd) >= 2 /\ <<cd[1], cd[2]>> \in PharmaHeads

\* C15: is_pharmaceutical_code is false outside EAN13, UPCA, CODE128; for
\* EAN13 with a 13-character code it is true iff the code starts with 84, 76,
\* 77, 80, 81, 82 or 83; for UPCA, CODE128 and EAN13 of another length it is
\* true whatever the code.
C15_PharmaceuticalCode ==
  v_call = "is_pharmaceutical_code" =>
    v_result = Returns(
      IF v_type \notin {"EAN13", "UPCA", "CODE128"} THEN FALSE
      ELSE IF v_type = "EAN13" /\ Len(v_code) = 13 THEN HasPharmaHead(v_code)
      ELSE TRUE)

\* C15 witness: an EAN13 code of another length without such a prefix counts
\* as pharmaceutical
C15_Witness ==
  /\ v_call = "is_pharmaceutical_code" /\ v_type = "EAN13"
  /\ Len(v_code) \in {11, 12, 14} /\ ~HasPharmaHead(v_code)
  /\ v_result = Returns(TRUE)

-----------------------------------------------------------------------------
(* Boxes, statistics, the ledger and the gate over the session *)

\* q is x / (scale / 10) cut to an integer, for x >= 0
Truncated(q, x, scale) == q * scale <= x * 10 /\ x * 10 < (q + 1) * scale

\* C16: the box drawn for a symbol is each of x, y, w, h of its box divided
\* by s and truncated, s being the scale returned by the search together with
\* the symbols; at s = 1.0 the box is unchanged, and at s = 1.2 the box
\* (120,120,60,30) becomes (100,100,50,25).
C16_BoxRemap ==
  (InFrame /\ barcodes # <<>>) =>
    /\ barcodes = searches[Len(searches)].barcodes
    /\ scale_factor = searches[Len(searches)].scale
    /\ \A i \in 1..Len(drawn) :
         /\ \A j \in 1..4 :
              Truncated(drawn[i][j], barcodes[i].rect[j], scale_factor)
         /\ scale_factor = 10 => drawn[i] = barcodes[i].rect
         /\ (scale_factor = 12 /\ barcodes[i].rect = <<120, 120, 60, 30>>)
              => drawn[i] = <<100, 100, 50, 25>>

\* C16 witness: the symbol was found at scale 1.2 in a later representation
\* and its box (120,120,60,30) drawn as (100,100,50,25)
C16_Witness ==
  /\ InFrame /\ scale_factor = 12 /\ Len(searches) > 1
  /\ barcodes = <<SymA>> /\ drawn = << <<100, 100, 50, 25>> >>

\* the number of records of the ledger that satisfy P
Count(P(_)) == Cardinality({i \in 1..Len(detected_codes) : P(detected_codes[i])})

\* C17: the statistics report the number of records, of valid records, of
\* pharmaceutical records, the records per symbology, and valid / total (0
\* for the empty ledger), after any records and clears; for one valid EAN13,
\* one invalid EAN13 and one CODE128 recorded by the pipeline: total 3,
\* valid 2, {EAN13: 2, CODE128: 1}, rate 2/3.
C17_Statistics ==
  LET st == get_statistics(detected_codes)
      types == {detected_codes[i].tipo : i \in 1..Len(detected_codes)}
  IN /\ st.total = Len(detected_codes)
     /\ st.valid = Count(LAMBDA c : validate_code(c.codigo, c.tipo) = Returns(TRUE))
     /\ st.valid = Count(LAMBDA c : c.valido)
     /\ st.pharmaceutical = Count(LAMBDA c : c.es_farmaceutico)
     /\ DOMAIN st.types_distribution = types
     /\ \A ty \in types :
          st.types_distribution[ty] = Count(LAMBDA c : c.tipo = ty)
     /\ st.detection_rate =
          IF detected_codes = <<>> THEN <<0, 1>>
          ELSE <<Count(LAMBDA c : c.valido), Len(detected_codes)>>
     /\ (/\ Len(detected_codes) = 3
         /\ Count(LAMBDA c : c.tipo = "EAN13" /\ c.valido) = 1
         /\ Count(LAMBDA c : c.tipo = "EAN13" /\ ~c.valido) = 1
         /\ Count(LAMBDA c : c.tipo = "CODE128") = 1)
        => /\ st.total = 3 /\ st.valid = 2
           /\ st.types_distribution = [ty \in {"EAN13", "CODE128"} |->
                                         IF ty = "EAN13" THEN 2 ELSE 1]
           /\ st.detection_rate = <<2, 3>>

\* C17 witness: after a clear, the ledger holds the valid EAN13, the invalid
\* EAN13 and the CODE128 of one frame
C17_Witness ==
  /\ cooling_at_clear # None
  /\ Len(detected_codes) = 3
  /\ detected_codes[1].tipo = "EAN13" /\ detected_codes[1].valido
  /\ detected_codes[2].tipo = "EAN13" /\ ~detected_codes[2].valido
  /\ detected_codes[3].tipo = "CODE128"

IsPrefix(a, b) == Len(a) <= Len(b) /\ SubSeq(b, 1, Len(a)) = a

\* C18: every operation other than clear leaves the ledger as it was or
\* appends to it, so no record is modified, removed or reordered; the records
\* are in the order in which the detections were accepted, and the symbols
\* of a frame are recorded in decoder order.
C18_AppendOnly ==
  /\ [](/\ Len(detected_codes) <= Len(accepted)
        /\ \A i \in 1..Len(detected_codes) :
             detected_codes[i].codigo = accepted[i].payload)
  /\ [][/\ ~ClearStep => IsPrefix(detected_codes, detected_codes')
        /\ RecordStep =>
             /\ Len(detected_codes') = Len(detected_codes) + 1
             /\ detected_codes'[Len(detected_codes')].codigo =
                  utf8_decode(barcodes[idx].data).text
             /\ detected_codes'[Len(detected_codes')].tipo = barcodes[idx].type
        /\ (pc \in {"draw", "gate", "record"} /\ pc' \in {"draw", "gate", "record"})
             => idx' \in {idx, idx + 1}]_vars

\* C18 witness: a ledger of three records, the last two from the two symbols
\* of the frame just processed, in decoder order, after an older record
C18_Witness ==
  /\ pc = "waitkey" /\ Len(barcodes) = 2 /\ Len(detected_codes) = 3
  /\ detected_codes[2].codigo = utf8_decode(barcodes[1].data).text
  /\ detected_codes[3].codigo = utf8_decode(barcodes[2].data).text
  /\ detected_codes[1].codigo = detected_codes[3].codigo

Idle == last_barcode = None /\ last_detection_time = None
Tracking == last_barcode # None /\ last_detection_time # None

\* C19: the gate is idle exactly when nothing was offered since the start of
\* the session or the last clear: the first offer is accepted and moves it
\* to tracking, only clear brings it back to idle, and between offers and
\* clears (from frame to frame) its state is kept.
C19_IdleOnlyAfterReset ==
  /\ [](Idle \/ Tracking)
  /\ [](Idle <=> (accepted = <<>> /\ rejected_since = None))
  /\ [][/\ (GateStep /\ Idle) =>
             /\ pc' = "record"
             /\ last_barcode' = Some(barcode_value)
             /\ last_detection_time' = Some(now)
        /\ (Tracking /\ ~ClearStep) => Tracking'
        /\ (Tracking /\ Idle') => ClearStep
        /\ (~GateStep /\ ~ClearStep) =>
             UNCHANGED <<last_barcode, last_detection_time>>]_vars

\* C19 witness: a new frame begins with the gate tracking the payload it
\* accepted in an earlier frame, after an earlier clear
C19_Witness ==
  /\ pc = "draw" /\ idx = 1 /\ drawn = <<>>
  /\ Tracking /\ Len(accepted) = 1 /\ rejected_since = None
  /\ cooling_at_clear # None

\* C20: preprocess never fails: for a 3-channel and for a 1-channel frame it
\* returns the 5 representations identity, grayscale, contrast-enhanced,
\* adaptive-binarized, morphologically-closed, in this order.
C20_PreprocessNeverFails ==
  frame # NoFrame =>
    LET p == preprocess_frame(frame)
    IN /\ p.ok
       /\ Len(p.frames) = 5
       /\ [i \in 1..5 |-> p.frames[i].tag] =
            <<"original", "gray", "clahe", "binary", "morph">>

-----------------------------------------------------------------------------
(* The frame as an object *)

\* the marks drawn so far into a pixel buffer: draw_barcode_info draws with
\* cv2.rectangle / cv2.putText into original_frame, which preprocess_frame
\* returned as the very frame it was given
drawn_on(array) == IF array = "frame" THEN drawn ELSE <<>>

\* C21: no frame is mutated in place: the raw frame handed to process_frame
\* and every candidate representation keep their pixel content while the
\* frame is preprocessed, searched, annotated and recorded.
C21_FramesKeepPixels ==
  (InFrame /\ preprocess_frame(frame).ok) =>
    /\ drawn_on("frame") = <<>>
    /\ \A i \in 1..5 : drawn_on(preprocess_frame(frame).frames[i].array) = <<>>

-----------------------------------------------------------------------------
(* The loop of run() *)

\* C22: a stop signal (key 'q' or an interrupt) takes effect only after the
\* current frame's pipeline run has completed: run() is never left between
\* the read of a frame and the end of its processing, so never with a payload
\* accepted by the gate and not recorded.
C22_StopFrameAligned ==
  /\ [][(pc # "exited" /\ pc' = "exited" /\ ended_by' \in {"quit", "interrupt"})
          => pc \in {"read", "waitkey", "key"}]_vars
  /\ [](ended_by \in {"quit", "interrupt"} => Len(accepted) = Len(detected_codes))

\* C23: a read failure ends the loop without a frame processed or another
\* read, and the caller of run() is told: run() has no return value, so it
\* ends with an exception.
C23_ReadFailureSurfaced ==
  ended_by = "read failure" =>
    /\ pc = "exited" /\ frame = NoFrame
    /\ exc # "none"

\* C29: however run() leaves its loop (quit key, read failure, capture not
\* open, KeyboardInterrupt, exception in a frame) cleanup runs exactly once:
\* the camera is released, is_running is false, and the ledger is what it
\* was when the loop was left.
C29_CleanupOnce ==
  /\ [](pc # "exited" => cleanups = 0 /\ ended_by = "")
  /\ [](pc = "exited" =>
          /\ cleanups = 1 /\ camera = "released" /\ ~is_running
          /\ ended_by \in {"quit", "read failure", "closed", "interrupt", "exception"}
          /\ (exc # "none" <=> ended_by = "exception"))
  /\ [][(pc # "exited" /\ pc' = "exited") =>
          /\ detected_codes' = detected_codes
          /\ cleanups' = cleanups + 1]_vars

\* C29 witness: run() was interrupted with records in the ledger; the camera
\* is released and the records are still there
C29_Witness ==
  /\ pc = "exited" /\ ended_by = "interrupt" /\ cleanups = 1
  /\ camera = "released" /\ ~is_running
  /\ Len(detected_codes) = 2

-----------------------------------------------------------------------------
(* Scales that cannot be resized to *)

\* C24: a scale at which int(width * scale) or int(height * scale) is not
\* positive is skipped: nothing is decoded at it (whatever the image would
\* give), no error is caught or raised, and the search goes on with the next
\* scale; scale 1.0 is never skipped, so every representation searched is
\* decoded at native size first.
C24_SkippedScale ==
  /\ exc = "none"
  /\ \A i \in 1..Len(searches) :
       /\ searches[i].tried[1] = 10
       /\ ~Skipped(frame, <<i, 1>>)
  /\ \A p \in Attempted :
       Skipped(frame, p) =>
         LET d == searches[p[1]]
         IN /\ scales[p[2]] # 10
            /\ scales[p[2]] \notin d.swallowed
            /\ ~(d.barcodes # <<>> /\ d.scale = scales[p[2]])
            /\ IF p[2] < Len(scales)
               THEN <<p[1], p[2] + 1>> \in Attempted
               ELSE d.barcodes = <<>> /\ d.scale = 10

\* C24 witness: in a frame one pixel wide the image at scale 0.8 would decode
\* but cannot be resized to (width 0); the symbols are found at scale 1.4
C24_Witness ==
  /\ InFrame /\ frame.width = 1 /\ Len(searches) = 1
  /\ Skipped(frame, <<1, 3>>) /\ frame.decode[<<1, 3>>].barcodes # <<>>
  /\ barcodes # <<>> /\ scale_factor = 14

\* the records of codes that are objects with a timestamp that is a date not
\* earlier than t minus the duration
RecordsWithin(codes, minutes, t) ==
  SelectSeq(codes, LAMBDA c :
    /\ IsObject(c) /\ "timestamp" \in DOMAIN c /\ c.timestamp # NotADate
    /\ c.timestamp * TicksPerSecond >= t - minutes * 60 * TicksPerSecond)

\* C25: a call of get_recent_codes(minutes) never raises and returns, in
\* ledger order, exactly the records whose timestamp is not earlier than the
\* current time minus the duration, whatever records, imports and clears
\* built the ledger.
C25_RecentCodes ==
  [][(q_call'[1] = "get_recent_codes" /\ query_vars' # query_vars) =>
       /\ ~q_result'.raised
       /\ q_result'.value = RecordsWithin(detected_codes, q_call'[2], now)]_vars

\* get_statistics raises AttributeError on an entry that is not an object
StatisticsRaise(codes) == \E i \in 1..Len(codes) : ~IsObject(codes[i])

RECURSIVE SumOver(_)
SumOver(f) ==
  IF DOMAIN f = {} THEN 0
  ELSE LET k == CHOOSE x \in DOMAIN f : TRUE
       IN f[k] + SumOver([x \in DOMAIN f \ {k} |-> f[x]])

C26_RecordCarriesValidator ==
  /\ [](\A i \in 1..Len(detected_codes) :
          LET r == detected_codes[i]
          IN /\ r.codigo = accepted[i].payload
             /\ r.valido = validate_code(r.codigo, r.tipo).value
             /\ r.es_farmaceutico = is_pharmaceutical_code(r.codigo, r.tipo))
  /\ [](get_statistics(detected_codes).pharmaceutical =
          Count(LAMBDA r : is_pharmaceutical_code(r.codigo, r.tipo)))
  /\ [][Len(detected_codes') > Len(detected_codes) =>
          /\ pc = "record"
          /\ barcode_value = LastAccepted.payload
          /\ LET r == detected_codes'[Len(detected_codes')]
             IN /\ r.codigo = barcode_value /\ r.tipo = barcode_type
                /\ r.valido = validate_code(barcode_value, barcode_type).value
                /\ r.es_farmaceutico =
                     is_pharmaceutical_code(barcode_value, barcode_type)]_vars

\* an EAN13 record without a pharmaceutical prefix is stored and counted as
\* non-pharmaceutical although its type is a pharmaceutical type
C26_Witness ==
  /\ pc = "waitkey"
  /\ \E i \in 1..Len(detected_codes) :
       /\ detected_codes[i].tipo = "EAN13"
       /\ _is_pharmaceutical_type(detected_codes[i].tipo)
       /\ ~HasPharmaHead(detected_codes[i].codigo)
       /\ ~detected_codes[i].es_farmaceutico
  /\ get_statistics(detected_codes).non_pharmaceutical >= 1

\* C27: the gate and the ledger stay in step. Outside the step between an
\* acceptance and its append the ledger is as long as the acceptances since
\* the last clear and holds their payloads in order; an acceptance leads to
\* the append of exactly one record of the accepted payload before another
\* symbol is examined, and nothing else appends.
C27_GateLedgerInStep ==
  /\ [](pc # "record" => Len(detected_codes) = Len(accepted))
  /\ [](pc = "record" =>
          /\ Len(accepted) = Len(detected_codes) + 1
          /\ LastAccepted.payload = barcode_value
          /\ last_barcode = Some(barcode_value)
          /\ last_detection_time = Some(LastAccepted.time))
  /\ [](\A i \in 1..Len(detected_codes) :
          detected_codes[i].codigo = accepted[i].payload)
  /\ [][Len(accepted') > Len(accepted) =>
          /\ pc = "gate" /\ pc' = "record"
          /\ accepted' = Append(accepted, LastAccepted')
          /\ detected_codes' = detected_codes]_vars
  /\ [][(pc = "record" /\ pc' # "record") =>
          /\ Len(detected_codes') = Len(detected_codes) + 1
          /\ SubSeq(detected_codes', 1, Len(detected_codes)) = detected_codes
          /\ detected_codes'[Len(detected_codes')].codigo = LastAccepted.payload
          /\ accepted' = accepted]_vars
  /\ [][detected_codes' # detected_codes =>
          \/ pc = "record"
          \/ ClearStep /\ detected_codes' = <<>> /\ accepted' = <<>> /\ Idle']_vars

\* the same payload accepted twice since the last clear, and recorded twice
C27_Witness ==
  /\ pc = "waitkey"
  /\ Len(accepted) >= 2 /\ Len(detected_codes) = Len(accepted)
  /\ \E i, j \in 1..Len(accepted) :
       i < j /\ accepted[i].payload = accepted[j].payload
             /\ detected_codes[j].codigo = detected_codes[i].codigo

\* the 's' key is handled in this step
ModeKeyStep == pc = "key" /\ key = "s" /\ pc' # "key"

\* the mode after n presses of 's' from mode m
RECURSIVE Pressed(_, _)
Pressed(m, n) ==
  IF n = 0 THEN m ELSE (Pressed(m, n - 1) + 1) % Len(processing_modes)

\* C30: processing_mode stays in 0..4; an 's' key advances it by one modulo
\* the five modes, five presses giving the mode back, and no other step
\* changes it; the symbols found for a frame, the decision of the gate and
\* the record appended are those computed from the frame, the gate state,
\* the clock and the ledger alone, whatever the mode.
C30_ModeInert ==
  /\ [](processing_mode \in 0..4)
  /\ [](Pressed(processing_mode, 5) = processing_mode)
  /\ [][ModeKeyStep => processing_mode' = Pressed(processing_mode, 1)]_vars
  /\ [][~ModeKeyStep => processing_mode' = processing_mode]_vars
  /\ []((InFrame /\ preprocess_frame(frame).ok) =>
          LET s == search_from(frame, preprocess_frame(frame).frames, 1, <<>>)
          IN barcodes = s.barcodes /\ scale_factor = s.scale_factor)
  /\ [][GateStep =>
          LET g == should_process_detection(last_barcode, last_detection_time,
                                            barcode_value, now)
          IN /\ (pc' = "record") = g.result
             /\ last_barcode' = g.last_barcode
             /\ last_detection_time' = g.last_detection_time]_vars
  /\ [][RecordStep =>
          detected_codes' =
            add_detected_code(detected_codes, barcode_value, barcode_type,
                              validate_code(barcode_value, barcode_type).value,
                              Some(is_pharmaceutical_code(barcode_value, barcode_type)),
                              now)]_vars

\* in the fourth mode a symbol that only the third representation shows has
\* been found and recorded
C30_Witness ==
  /\ processing_mode = 3
  /\ pc = "waitkey"
  /\ frame.decode[<<3, 1>>].barcodes # <<>>
  /\ frame.decode[<<1, 1>>].barcodes = <<>>
  /\ barcodes = <<SymA>>
  /\ Len(detected_codes) >= 1

====
